---- MODULE Spec2Model ----
(***************************************************************************)
(* pi-glass: the probe scheduler (poll_loop), the SQLite result store      *)
(* shared through AppState.db and the HTTP handler of src/src/main.rs.     *)
(* parse_ui_cookie of src/src/lib.rs is examined on its own, under         *)
(* SpecCookie; the sequence number of the pings near its wrap under        *)
(* SpecSeq; the loop of src/src/bin/mailer.rs under SpecMailer; and        *)
(* render_full_page and inline_css_vars of src/src/lib.rs under SpecRender *)
(* and SpecInline.                                                         *)
(*                                                                         *)
(* Time is counted in hours.  A timestamp is the text produced by          *)
(* Local::now().to_rfc3339(): it is kept as the pair <<local, off>> of the *)
(* local wall-clock hour and the UTC offset printed after it, and SQLite   *)
(* compares two such texts as strings, that is by the local hour first     *)
(* and by the offset text second.                                          *)
(***************************************************************************)
EXTENDS Integers, Sequences, FiniteSets, TLC

\* ------------------------------------------------------------------ bounds
\* Poll cycles the scheduler may start.
MaxCycles == 2
\* HTTP requests that may be issued (one worker slot each).
NumReqs == 2
\* Times the wall clock may advance.
MaxAdvances == 2
\* Ids in one field of a ui cookie, and fields in its pg value.
MaxIds == 2
MaxFields == 2
\* The ticks a second is divided into, and the iterations of the mailer's
\* loop.
TicksPerSec == 2
MaxLoops == 3
\* The services of a rendered configuration.
MaxServices == 2
\* The pieces of a text whose variables are inlined.
MaxPieces == 3

\* ------------------------------------------------------------------ text
\* Strings the code inspects character by character are sequences of
\* one-character strings.
Digits == {"0", "1", "2", "3", "4", "5", "6", "7", "8", "9"}
HexLetters == {"a", "b", "c", "d", "e", "f"}

DigitVal(c) ==
    CASE c = "0" -> 0 [] c = "1" -> 1 [] c = "2" -> 2 [] c = "3" -> 3
      [] c = "4" -> 4 [] c = "5" -> 5 [] c = "6" -> 6 [] c = "7" -> 7
      [] c = "8" -> 8 [] OTHER -> 9

\* The positions of the dots of s, in increasing order.
RECURSIVE DotsFrom(_, _)
DotsFrom(s, i) ==
    IF i > Len(s) THEN << >>
    ELSE IF s[i] = "." THEN <<i>> \o DotsFrom(s, i + 1)
    ELSE DotsFrom(s, i + 1)

\* One decimal octet of an IPv4 address: one to three digits, no leading
\* zero, at most 255.
IsOctet(p) ==
    /\ Len(p) \in 1..3
    /\ \A k \in 1..Len(p) : p[k] \in Digits
    /\ (Len(p) > 1 => p[1] # "0")
    /\ LET v == IF Len(p) = 1 THEN DigitVal(p[1])
                ELSE IF Len(p) = 2 THEN 10 * DigitVal(p[1]) + DigitVal(p[2])
                ELSE 100 * DigitVal(p[1]) + 10 * DigitVal(p[2]) + DigitVal(p[3])
       IN  v <= 255

IsIpv4(s) ==
    LET d == DotsFrom(s, 1) IN
    /\ Len(d) = 3
    /\ IsOctet(SubSeq(s, 1, d[1] - 1))
    /\ IsOctet(SubSeq(s, d[1] + 1, d[2] - 1))
    /\ IsOctet(SubSeq(s, d[2] + 1, d[3] - 1))
    /\ IsOctet(SubSeq(s, d[3] + 1, Len(s)))

\* Every text the IPv6 parser accepts is made of hexadecimal digits, colons
\* and dots and holds at least two colons; this is the superset used here.
IsIpv6(s) ==
    /\ \A k \in 1..Len(s) : s[k] \in Digits \cup HexLetters \cup {":", "."}
    /\ Cardinality({k \in 1..Len(s) : s[k] = ":"}) >= 2

\* host.addr.parse::<IpAddr>() succeeds.
ParsesAsIpAddr(s) == IsIpv4(s) \/ IsIpv6(s)

\* ------------------------------------------------------------------ config
\* The check kinds poll_loop dispatches on; any other text is unknown.
KnownChecks == {"ping", "dns", "tcp"}

DEFAULT_POLL_INTERVAL_SECS == 30
DEFAULT_RETENTION_DAYS == 7

Host(addr, label) == [addr |-> addr, label |-> label]
Service(label, check) == [label |-> label, check |-> check]

\* The configurations explored: Config values as load_config may return them.
Configs ==
    { \* one host and one tcp service, retention of one day
      [ poll_interval_secs |-> DEFAULT_POLL_INTERVAL_SECS,
        retention_days |-> 1,
        hosts |-> << Host(<<"1", "0", ".", "0", ".", "0", ".", "1">>, <<"r">>) >>,
        services |-> << Service(<<"w">>, "tcp") >> ],
      \* no host, a service of an unknown kind and then a dns service, a
      \* shorter poll interval
      [ poll_interval_secs |-> 10,
        retention_days |-> 1,
        hosts |-> << >>,
        services |-> << Service(<<"a">>, "smtp"), Service(<<"n">>, "dns") >> ],
      \* a host whose address is no IP address, and a ping service
      [ poll_interval_secs |-> 60,
        retention_days |-> DEFAULT_RETENTION_DAYS,
        hosts |-> << Host(<<"s", "v", "c", ":", "w">>, <<"x">>) >>,
        services |-> << Service(<<"w">>, "ping") >> ] }

\* ------------------------------------------------------------------ time
HoursPerDay == 24
MinutesPerHour == 60

\* The wall clock is read with Local::now().  It is seen to advance while
\* the scheduler awaits: by less than an hour (0), by an hour, or, over
\* interval.tick() only, by a day and an hour (the clock was stepped, or the
\* machine slept).
ProbeTimes == {0, 1}
TickTimes == {0, 1, HoursPerDay + 1}

\* The UTC offset (hours) of the local zone at instant t: daylight saving
\* time ends one hour after the start.
TzOffset(t) == IF t < 1 THEN 1 ELSE 0

\* DateTime<Local>::to_rfc3339 of the instant t.
Rfc3339(t) == <<t + TzOffset(t), TzOffset(t)>>

\* String comparison of two RFC 3339 texts: the date and time come first,
\* the offset last.
TextLess(a, b) == a[1] < b[1] \/ (a[1] = b[1] /\ a[2] < b[2])

\* ------------------------------------------------------------------ store
\* A row of ping_results: id, host, timestamp, status, latency_ms.  The field
\* cycle is history only: the number of the poll cycle that inserted the
\* row; no query reads it.
\* An Option is << >> for None and <<v>> for Some(v); a NULL latency_ms is
\* None.
NoLatency == << >>
Some(v) == <<v>>
\* The latencies (ms) a successful probe may report.
Latencies == {4}

\* INTEGER PRIMARY KEY without AUTOINCREMENT: one more than the largest id
\* present, 1 for an empty table.
NextRowId(rows) == IF rows = << >> THEN 1 ELSE rows[Len(rows)].id + 1

\* INSERT INTO ping_results (host, timestamp, status, latency_ms)
InsertRow(rows, host, timestamp, status, latency_ms, c) ==
    Append(rows, [id |-> NextRowId(rows), host |-> host, timestamp |-> timestamp,
                  status |-> status, latency_ms |-> latency_ms, cycle |-> c])

\* DELETE FROM ping_results WHERE timestamp < ?1
DeleteOlder(rows, cutoff) ==
    SelectSeq(rows, LAMBDA r : ~TextLess(r.timestamp, cutoff))

\* ------------------------------------------------------------------ state
VARIABLES
    config,      \* AppState.config
    clock,       \* the wall clock: the instant now (hours), and how often it
                 \* was seen to advance
    db,          \* the rows of ping_results, by id
    lock,        \* AppState.db, the mutex: its holder and its poison flag
    sched,       \* poll_loop: its position and its locals
    cyc,         \* history: the cycles completed since the initial state,
                 \* the times the scheduler took the mutex in the cycle
                 \* under way (or, at tick, the last one), and the sequence
                 \* numbers of the echo requests of the cycle under way
    reqs,        \* the HTTP requests: their inputs, position and response
    call         \* a library function under examination: its inputs and
                 \* what it has returned for them

vars == <<config, clock, db, lock, sched, cyc, reqs, call>>

\* The holders of the mutex.
Free == << >>
Scheduler == <<"poll_loop">>
Handler(r) == <<"handler", r>>
Reqs == 1..NumReqs

NumTargets == Len(config.hosts) + Len(config.services)

\* The subject key of a service row: format!("svc:{}", svc.label).
SvcKey(svc) == <<"s", "v", "c", ":">> \o svc.label

\* A failure that ends the task after its guard was released in the normal
\* way (the error is returned with `?` past a guard already dropped): the
\* mutex is left usable.
Panic_GuardReleased ==
    /\ sched' = [sched EXCEPT !.pc = "panicked"]
    /\ lock' = IF lock.holder = Scheduler
               THEN [lock EXCEPT !.holder = Free] ELSE lock

\* A panic of the task: it ends; a guard it holds is dropped while unwinding,
\* which poisons the mutex.
Panic ==
    /\ sched' = [sched EXCEPT !.pc = "panicked"]
    /\ lock' = IF lock.holder = Scheduler
               THEN [holder |-> Free, poisoned |-> TRUE] ELSE lock

\* A scheduler that writes through a connection of its own and takes no
\* mutex.
SchedLock_OwnConnection(from, to) ==
    /\ sched.pc = from
    /\ sched' = [sched EXCEPT !.pc = to]
    /\ cyc' = [cyc EXCEPT !.locks = @ + 1]
    /\ UNCHANGED <<call, config, clock, db, lock, reqs>>

\* state.db.lock().unwrap() by the scheduler, blocking while the mutex is
\* held: it takes the mutex, or panics when the mutex is poisoned.
SchedLock(from, to) ==
    /\ sched.pc = from
    /\ lock.holder = Free
    /\ IF lock.poisoned
       THEN Panic /\ UNCHANGED cyc
       ELSE /\ lock' = [lock EXCEPT !.holder = Scheduler]
            /\ sched' = [sched EXCEPT !.pc = to]
            /\ cyc' = [cyc EXCEPT !.locks = @ + 1]
    /\ UNCHANGED <<call, config, clock, db, reqs>>

\* ------------------------------------------------------------------ poll_loop
\* An action of poll_loop runs the task from one suspension point (an await,
\* or the mutex) to the next.  pc names the point the task is suspended at:
\* tick (interval.tick), host_ping (pinger.ping), svc_check (check_ping,
\* check_dns or check_tcp), host_lock, svc_lock and purge_lock (the mutex),
\* host_exec, svc_exec and purge_exec (the mutex is held, the statement is
\* about to run).

\* Probes of which one that was refused still reports the time it took:
\* (false, Some(elapsed)).
ProbeOutcomes_TimedRefusal ==
    {[up |-> u, latency_ms |-> Some(l)] : u \in BOOLEAN, l \in Latencies}
        \cup {[up |-> FALSE, latency_ms |-> NoLatency]}

\* What a probe that was awaited returns: (true, Some(latency)) on a reply,
\* (false, None) on a timeout, a refusal, a resolution or a socket error.
ProbeOutcomes ==
    {[up |-> TRUE, latency_ms |-> Some(l)] : l \in Latencies}
        \cup {[up |-> FALSE, latency_ms |-> NoLatency]}

\* let status = if up { "UP" } else { "DOWN" };
StatusOf(up) == IF up THEN "UP" ELSE "DOWN"

\* let cutoff = (Local::now() - Duration::days(retention_days)).to_rfc3339();
RetentionCutoff(t) == Rfc3339(t - config.retention_days * HoursPerDay)

\* seq + 1 on a counter declared wider than the 16 bits of PingSequence.
WrappingAdd_Wider(seq) == seq + 1

\* seq.wrapping_add(1) on a u16
WrappingAdd(seq) == (seq + 1) % 65536

\* The locals of an iteration, as left when the iteration ends.
NoResult == [status |-> "", latency_ms |-> NoLatency, now |-> << >>]

\* The result of a probe and the timestamp of its row, taken at instant t.
Result(up, latency_ms, t) ==
    [status |-> StatusOf(up), latency_ms |-> latency_ms, now |-> Rfc3339(t)]

\* The purge is reached at instant t: the cutoff is computed and the mutex
\* asked for.
EnterPurge(t) ==
    [sched EXCEPT !.pc = "purge_lock", !.i = 0, !.res = NoResult,
                  !.cutoff = RetentionCutoff(t)]

\* A service loop that passes over a service of a kind it does not know and
\* writes no row for it (a `continue` in the match's last arm).
RECURSIVE EnterSvc_SkipUnknown(_, _)
EnterSvc_SkipUnknown(i, t) ==
    IF i > Len(config.services) THEN EnterPurge(t)
    ELSE IF config.services[i].check \in KnownChecks
    THEN [sched EXCEPT !.pc = "svc_check", !.i = i, !.res = NoResult]
    ELSE EnterSvc_SkipUnknown(i + 1, t)

\* A service loop whose match sends any other kind to check_ping (a last arm
\* `_ => check_ping(..)`).
EnterSvc_ProbeUnknown(i, t) ==
    IF i > Len(config.services) THEN EnterPurge(t)
    ELSE [sched EXCEPT !.pc = "svc_check", !.i = i, !.res = NoResult]

\* The service loop is at service i at instant t: the check kind is matched;
\* a known kind starts its probe, any other kind is (false, None) at once and
\* the mutex is asked for.  Past the last service comes the purge.
EnterSvc(i, t) ==
    IF i > Len(config.services) THEN EnterPurge(t)
    ELSE IF config.services[i].check \in KnownChecks
    THEN [sched EXCEPT !.pc = "svc_check", !.i = i, !.res = NoResult]
    ELSE [sched EXCEPT !.pc = "svc_lock", !.i = i,
                       !.res = Result(FALSE, NoLatency, t)]

\* A host loop that does not parse the address before it pings (the address
\* is handed to a resolver, as check_ping does with a service's target).
EnterHost_NoParse(i, t) ==
    IF i > Len(config.hosts) THEN EnterSvc(1, t)
    ELSE [sched EXCEPT !.pc = "host_ping", !.i = i, !.res = NoResult]

\* The host loop is at host i at instant t: the address is parsed, a panic
\* when it is no IP address, and the echo request is sent.  Past the last
\* host comes the service loop.
EnterHost(i, t) ==
    IF i > Len(config.hosts) THEN EnterSvc(1, t)
    ELSE IF ParsesAsIpAddr(config.hosts[i].addr)
    THEN [sched EXCEPT !.pc = "host_ping", !.i = i, !.res = NoResult]
    ELSE [sched EXCEPT !.pc = "panicked"]

\* The wall clock after an await that took d hours.
Elapse(d) ==
    /\ d > 0 => clock.advances < MaxAdvances
    /\ clock' = [now |-> clock.now + d,
                 advances |-> clock.advances + (IF d > 0 THEN 1 ELSE 0)]

\* interval.tick().await returns: a cycle starts.
PollTick ==
    /\ sched.pc = "tick"
    /\ cyc.done < MaxCycles
    /\ \E d \in TickTimes :
         /\ Elapse(d)
         /\ sched' = EnterHost(1, clock.now + d)
    /\ cyc' = [cyc EXCEPT !.locks = 0, !.pings = {}]
    /\ UNCHANGED <<call, config, db, lock, reqs>>

\* pinger.ping(..).await returns; status and latency are bound, the
\* timestamp of the row is taken and the mutex is asked for.
PollHostPing ==
    /\ sched.pc = "host_ping"
    /\ \E o \in ProbeOutcomes, d \in ProbeTimes :
         /\ Elapse(d)
         /\ sched' = [sched EXCEPT !.pc = "host_lock",
                                   !.res = Result(o.up, o.latency_ms, clock.now + d)]
    /\ cyc' = [cyc EXCEPT !.pings = @ \cup {sched.seq}]
    /\ UNCHANGED <<call, config, db, lock, reqs>>

PollHostLock == SchedLock("host_lock", "host_exec")

\* A host insert under a guard that outlives the iteration (taken once,
\* outside the loop, and never dropped).
PollHostInsert_KeepGuard ==
    /\ sched.pc = "host_exec"
    /\ db' = InsertRow(db, config.hosts[sched.i].addr, sched.res.now,
                       sched.res.status, sched.res.latency_ms, cyc.done + 1)
    /\ sched' = EnterHost(sched.i + 1, clock.now)
    /\ UNCHANGED <<call, config, clock, lock, cyc, reqs>>

\* db.execute(INSERT ..).unwrap() for a host; the iteration ends, the guard
\* is dropped, and the loop goes on.
PollHostInsert ==
    /\ sched.pc = "host_exec"
    /\ \/ /\ db' = InsertRow(db, config.hosts[sched.i].addr, sched.res.now,
                             sched.res.status, sched.res.latency_ms, cyc.done + 1)
          /\ lock' = [lock EXCEPT !.holder = Free]
          /\ sched' = EnterHost(sched.i + 1, clock.now)
       \/ \* the store fails the write
          /\ Panic
          /\ UNCHANGED db
    /\ UNCHANGED <<call, config, clock, cyc, reqs>>

\* check_ping, check_dns or check_tcp returns.
PollSvcCheck ==
    /\ sched.pc = "svc_check"
    /\ \E o \in ProbeOutcomes, d \in ProbeTimes :
         /\ Elapse(d)
         /\ sched' = [sched EXCEPT !.pc = "svc_lock",
                                   !.res = Result(o.up, o.latency_ms, clock.now + d)]
    /\ cyc' = IF config.services[sched.i].check = "ping"
              THEN [cyc EXCEPT !.pings = @ \cup {sched.seq}] ELSE cyc
    /\ UNCHANGED <<call, config, db, lock, reqs>>

PollSvcLock == SchedLock("svc_lock", "svc_exec")

\* db.execute(INSERT ..).unwrap() for a service; the iteration ends, the
\* guard is dropped, and the loop goes on.
PollSvcInsert ==
    /\ sched.pc = "svc_exec"
    /\ \/ /\ db' = InsertRow(db, SvcKey(config.services[sched.i]), sched.res.now,
                             sched.res.status, sched.res.latency_ms, cyc.done + 1)
          /\ lock' = [lock EXCEPT !.holder = Free]
          /\ sched' = EnterSvc(sched.i + 1, clock.now)
       \/ /\ Panic
          /\ UNCHANGED db
    /\ UNCHANGED <<call, config, clock, cyc, reqs>>

PollPurgeLock == SchedLock("purge_lock", "purge_exec")

\* db.execute(DELETE ..).unwrap(), seq = seq.wrapping_add(1), and the end of
\* the loop's body, where the guard is dropped: the cycle is complete.
PollPurge ==
    /\ sched.pc = "purge_exec"
    /\ \/ /\ db' = DeleteOlder(db, sched.cutoff)
          /\ lock' = [lock EXCEPT !.holder = Free]
          /\ sched' = [sched EXCEPT !.pc = "tick", !.cutoff = << >>,
                                    !.seq = WrappingAdd(@)]
          /\ cyc' = [cyc EXCEPT !.done = @ + 1]
       \/ /\ Panic
          /\ UNCHANGED <<db, cyc>>
    /\ UNCHANGED <<call, config, clock, reqs>>

\* ------------------------------------------------------------------ queries
None == "--"

\* The characters of the labels in use, in code order, and to_lowercase.
Alphabet == <<"A", "N", "W", "a", "n", "r", "w", "x">>
ToLower(c) == CASE c = "A" -> "a" [] c = "N" -> "n" [] c = "W" -> "w" [] OTHER -> c
CharCode(c) == CHOOSE k \in 1..Len(Alphabet) : Alphabet[k] = c

\* a.to_lowercase().cmp(&b.to_lowercase()) is Less or Equal.
RECURSIVE LowerLeq(_, _)
LowerLeq(a, b) ==
    IF a = << >> THEN TRUE
    ELSE IF b = << >> THEN FALSE
    ELSE LET x == CharCode(ToLower(Head(a)))
             y == CharCode(ToLower(Head(b)))
         IN  IF x # y THEN x < y ELSE LowerLeq(Tail(a), Tail(b))

RECURSIVE Reverse(_)
Reverse(q) == IF q = << >> THEN << >> ELSE Append(Reverse(Tail(q)), Head(q))

\* The first n elements (LIMIT n).
Limit(q, n) == SubSeq(q, 1, IF Len(q) < n THEN Len(q) ELSE n)

\* WHERE host = ?1 ORDER BY id DESC
ByIdDesc(rows, host) == Reverse(SelectSeq(rows, LAMBDA r : r.host = host))

RECURSIVE SumLatency(_)
SumLatency(q) == IF q = << >> THEN 0 ELSE Head(q).latency_ms[1] + SumLatency(Tail(q))

\* n / d printed with one decimal ({:.1}): the value in tenths.
Tenths(n, d) == (20 * n + d) \div (2 * d)

\* query_window_stats: over the rows of host whose timestamp text is greater
\* than the text of now less the window, COUNT(*), the count of UP rows and
\* the average latency of the UP rows as fmt_ms prints it.  With one latency
\* value the minimum and the maximum are that value whenever there is an
\* average.
query_window_stats(rows, host, minutes, t) ==
    LET cutoff == Rfc3339(t - minutes \div MinutesPerHour)
        sel == SelectSeq(rows, LAMBDA r : r.host = host /\ TextLess(cutoff, r.timestamp))
        ups == SelectSeq(sel, LAMBDA r : r.status = "UP")
    IN  [total |-> Len(sel), up_count |-> Len(ups),
         avg_ms |-> IF Len(ups) > 0 THEN Some(Tenths(SumLatency(ups), Len(ups)))
                    ELSE << >>]

\* fmt_pct of the uptime of a window: up_count * 100 / total with one decimal,
\* or -- for an empty window.
fmt_uptime(w) ==
    IF w.total > 0 THEN Some(Tenths(100 * w.up_count, w.total)) ELSE << >>

\* query_streak: the latest status and the length of its run among the last
\* 200 rows of host.
RECURSIVE RunLength(_, _)
RunLength(q, first) ==
    IF q = << >> \/ Head(q).status # first THEN 0
    ELSE 1 + RunLength(Tail(q), first)

query_streak(rows, host) ==
    LET statuses == Limit(ByIdDesc(rows, host), 200)
    IN  IF statuses = << >> THEN <<None, 0>>
        ELSE <<statuses[1].status, RunLength(statuses, statuses[1].status)>>

\* query_latest_status
query_latest_status(rows, host) ==
    LET q == ByIdDesc(rows, host)
    IN  IF q = << >> THEN <<None, NoLatency>> ELSE <<q[1].status, q[1].latency_ms>>

\* query_recent_checks
query_recent_checks(rows, host, limit) == Limit(ByIdDesc(rows, host), limit)

\* ------------------------------------------------------------------ rendering
\* A rendered row of a host card: timestamp, status and latency as stored.
HostRow(r) == <<r.timestamp, r.status, r.latency_ms>>

\* A rendered row of a service: &ts[11..19], the time of day without the
\* date and without the offset.
SvcRow(r) == <<r.timestamp[1] % HoursPerDay, r.status, r.latency_ms>>

render_host(rows, host, t) ==
    LET w1h == query_window_stats(rows, host.addr, 60, t)
        w24h == query_window_stats(rows, host.addr, 1440, t)
        w7d == query_window_stats(rows, host.addr, 10080, t)
    IN  [label |-> host.label, addr |-> host.addr,
         streak |-> query_streak(rows, host.addr),
         open |-> w1h.total > 0 /\ w1h.up_count < w1h.total,
         uptime |-> <<fmt_uptime(w1h), fmt_uptime(w24h), fmt_uptime(w7d)>>,
         avg_ms |-> <<w1h.avg_ms, w24h.avg_ms, w7d.avg_ms>>,
         rows |-> LET q == query_recent_checks(rows, host.addr, 20)
                  IN  [k \in 1..Len(q) |-> HostRow(q[k])]]

render_service_item(rows, svc, id, t) ==
    LET key == SvcKey(svc)
        w1h == query_window_stats(rows, key, 60, t)
    IN  [id |-> id, label |-> svc.label, check |-> svc.check,
         latest |-> query_latest_status(rows, key),
         uptime |-> fmt_uptime(w1h), avg_ms |-> w1h.avg_ms,
         rows |-> LET q == query_recent_checks(rows, key, 10)
                  IN  [k \in 1..Len(q) |-> SvcRow(q[k])]]

render_service_card(rows, title, svcs, start_idx, t) ==
    IF svcs = << >> THEN << >>
    ELSE << [title |-> title,
             up_count |-> Cardinality({k \in 1..Len(svcs) :
                              query_latest_status(rows, SvcKey(svcs[k]))[1] = "UP"}),
             total |-> Len(svcs),
             items |-> [k \in 1..Len(svcs) |->
                          render_service_item(rows, svcs[k], start_idx + k - 1, t)]] >>

\* sort_by(|a, b| a.label.to_lowercase().cmp(&b.label.to_lowercase())): a
\* stable sort, here by insertion.
RECURSIVE InsertSorted(_, _)
InsertSorted(q, s) ==
    IF q = << >> THEN <<s>>
    ELSE IF LowerLeq(Head(q).label, s.label) THEN <<Head(q)>> \o InsertSorted(Tail(q), s)
    ELSE <<s>> \o q

RECURSIVE SortByLabel(_)
SortByLabel(q) ==
    IF q = << >> THEN << >>
    ELSE InsertSorted(SortByLabel(SubSeq(q, 1, Len(q) - 1)), q[Len(q)])

render_services(rows, services, t) ==
    IF services = << >> THEN << >>
    ELSE LET non_dns == SortByLabel(SelectSeq(services, LAMBDA s : s.check # "dns"))
             dns == SortByLabel(SelectSeq(services, LAMBDA s : s.check = "dns"))
         IN  render_service_card(rows, "Web", non_dns, 0, t)
                 \o render_service_card(rows, "DNS", dns, Len(non_dns), t)

\* ------------------------------------------------------------------ handler
\* The page handler returns: Html(html) is a 200 response whose only header
\* is the content type, so it carries no ETag; the page's meta refresh is
\* the literal 30.
NoETag == << >>
NoHeader == << >>
MetaRefresh == 30

\* The cookies a request may carry, and the If-None-Match headers: none, or
\* the tag "{generation}-{selector}" of generation 1 for its own cookie.
Cookies == {""}
ETagText(generation, cookie) == <<generation, cookie>>
RequestInputs ==
    UNION {{[cookie |-> c, if_none_match |-> h] :
                h \in {NoHeader, Some(ETagText(1, c))}} : c \in Cookies}

NoResponse == [status |-> 0]

\* The page: the service cards, then one card per host.
render_page(rows, t) ==
    [services |-> render_services(rows, config.services, t),
     hosts |-> [k \in 1..Len(config.hosts) |-> render_host(rows, config.hosts[k], t)]]

\* History of a render, kept with the response (cycles_read), beside the
\* number of cycles complete when it ran (cycles_done): the cycles whose rows
\* the queries returned.
Range(q) == {q[k] : k \in 1..Len(q)}
CyclesRead(rows) ==
    {r.cycle : r \in
        UNION ({Range(query_recent_checks(rows, h.addr, 20)) : h \in Range(config.hosts)}
               \cup {Range(query_recent_checks(rows, SvcKey(v), 10)) :
                        v \in Range(config.services)})}

\* A request arrives with its headers; the handler is entered.
Request(r) ==
    /\ reqs[r].pc = "new"
    /\ \A q \in 1..(r - 1) : reqs[q].pc # "new"
    /\ \E in \in RequestInputs :
         reqs' = [reqs EXCEPT ![r].pc = "lock", ![r].cookie = in.cookie,
                              ![r].if_none_match = in.if_none_match]
    /\ UNCHANGED <<call, config, clock, db, lock, sched, cyc>>

\* state.db.lock().unwrap() by the handler: it takes the mutex, or panics
\* when the mutex is poisoned, and the request gets no response.
HandlerLock(r) ==
    /\ reqs[r].pc = "lock"
    /\ lock.holder = Free
    /\ IF lock.poisoned
       THEN reqs' = [reqs EXCEPT ![r].pc = "panicked"] /\ UNCHANGED lock
       ELSE /\ lock' = [lock EXCEPT !.holder = Handler(r)]
            /\ reqs' = [reqs EXCEPT ![r].pc = "render"]
    /\ UNCHANGED <<call, config, clock, db, sched, cyc>>

\* A handler that, its page rendered, records the visit as a row of the
\* table.
HandlerRender_LogsVisit(r) ==
    /\ reqs[r].pc = "render"
    /\ reqs' = [reqs EXCEPT ![r].pc = "done",
                  ![r].resp = [status |-> 200, etag |-> NoETag,
                               refresh |-> MetaRefresh,
                               body |-> render_page(db, clock.now),
                               store_reads |-> NumTargets >= 1,
                               cycles_done |-> cyc.done,
                               cycles_read |-> CyclesRead(db)]]
    /\ db' = InsertRow(db, <<"G", "E", "T">>, Rfc3339(clock.now), "UP", NoLatency,
                       cyc.done)
    /\ lock' = [lock EXCEPT !.holder = Free]
    /\ UNCHANGED <<call, config, clock, sched, cyc>>

\* The rest of the handler, under the mutex: every query of render_services
\* and render_host, and the response; or a query fails and its unwrap
\* panics, which poisons the mutex.
HandlerRender(r) ==
    /\ reqs[r].pc = "render"
    /\ \/ /\ reqs' = [reqs EXCEPT ![r].pc = "done",
                        ![r].resp = [status |-> 200, etag |-> NoETag,
                                     refresh |-> MetaRefresh,
                                     body |-> render_page(db, clock.now),
                                     store_reads |-> NumTargets >= 1,
                                     cycles_done |-> cyc.done,
                                     cycles_read |-> CyclesRead(db)]]
          /\ lock' = [lock EXCEPT !.holder = Free]
       \/ /\ NumTargets >= 1
          /\ reqs' = [reqs EXCEPT ![r].pc = "panicked"]
          /\ lock' = [holder |-> Free, poisoned |-> TRUE]
    /\ UNCHANGED <<call, config, clock, db, sched, cyc>>

\* ------------------------------------------------------------------ ui cookie
\* lib.rs, parse_ui_cookie.  A text is a sequence of one-character strings.

\* The place of the first c in s, 0 when there is none.
FirstIndex(s, c) ==
    IF \E k \in 1..Len(s) : s[k] = c
    THEN CHOOSE k \in 1..Len(s) : s[k] = c /\ \A j \in 1..(k - 1) : s[j] # c
    ELSE 0

\* str::split(c): the pieces between the separators, one piece (the text
\* itself, empty or not) when there is no separator.
RECURSIVE Split(_, _)
Split(s, c) ==
    LET k == FirstIndex(s, c)
    IN  IF k = 0 THEN <<s>>
        ELSE <<SubSeq(s, 1, k - 1)>> \o Split(SubSeq(s, k + 1, Len(s)), c)

\* str::trim
RECURSIVE TrimStart(_)
TrimStart(s) == IF s # << >> /\ Head(s) = " " THEN TrimStart(Tail(s)) ELSE s
Trim(s) == Reverse(TrimStart(Reverse(TrimStart(s))))

\* str::strip_prefix: Some(rest) or None.
strip_prefix(s, prefix) ==
    IF Len(s) >= Len(prefix) /\ SubSeq(s, 1, Len(prefix)) = prefix
    THEN Some(SubSeq(s, Len(prefix) + 1, Len(s)))
    ELSE << >>

\* The ids of a field collected into a Vec: their order and their
\* repetitions are kept.
IdSet_AsList(v) == SelectSeq(Split(v, "|"), LAMBDA x : x # << >>)

\* v.split('|').filter(|s| !s.is_empty()).map(String::from).collect() into a
\* HashSet.
IdSet(v) == {x \in Range(Split(v, "|")) : x # << >>}

\* UiCookie with its three open-sets absent.
DefaultUiCookie ==
    [open_hosts |-> << >>, open_svc_cards |-> << >>, open_svc_items |-> << >>]

\* for field in pg.split('&'): the fields in order, a later one replacing
\* what an earlier one of the same name set.
RECURSIVE ParseFields(_, _)
ParseFields(fields, ui) ==
    IF fields = << >> THEN ui
    ELSE LET field == Head(fields)
             ho == strip_prefix(field, <<"h", "o", "=">>)
             sc == strip_prefix(field, <<"s", "c", "=">>)
             si == strip_prefix(field, <<"s", "i", "=">>)
         IN  ParseFields(Tail(fields),
                 IF ho # << >> THEN [ui EXCEPT !.open_hosts = Some(IdSet(ho[1]))]
                 ELSE IF sc # << >> THEN [ui EXCEPT !.open_svc_cards = Some(IdSet(sc[1]))]
                 ELSE IF si # << >> THEN [ui EXCEPT !.open_svc_items = Some(IdSet(si[1]))]
                 ELSE ui)

parse_ui_cookie(cookie_str) ==
    LET found == SelectSeq(Split(cookie_str, ";"),
                           LAMBDA x : strip_prefix(Trim(x), <<"p", "g", "=">>) # << >>)
        pg == IF found = << >> THEN << >>
              ELSE strip_prefix(Trim(found[1]), <<"p", "g", "=">>)[1]
    IN  IF pg = << >> THEN DefaultUiCookie
        ELSE ParseFields(Split(pg, "&"), DefaultUiCookie)

\* The cookie headers examined.  An id list is written id|id, a field
\* name=list, a pg value field&field, a header part; part.
RECURSIVE JoinWith(_, _)
JoinWith(texts, c) ==
    IF texts = << >> THEN << >>
    ELSE IF Len(texts) = 1 THEN texts[1]
    ELSE texts[1] \o <<c>> \o JoinWith(Tail(texts), c)

CookieIds == {<<"a">>, <<"b", "a">>}
FieldNames == {<<"h", "o">>, <<"s", "c">>, <<"s", "i">>, <<"z", "z">>}
IdLists == UNION {[1..n -> CookieIds] : n \in 0..MaxIds}
FieldText(name, ids) == name \o <<"=">> \o JoinWith(ids, "|")

\* Two id lists that hold the same ids, in any order and any number of
\* times; two fields of one name, and two pg values of the same fields, that
\* differ in this way only.
SameIds == {l \in IdLists \X IdLists : Range(l[1]) = Range(l[2])}
FieldPairs ==
    {<<FieldText(name, l[1]), FieldText(name, l[2])>> : name \in FieldNames, l \in SameIds}
PgPairs ==
    UNION {{<<JoinWith([k \in 1..n |-> f[k][1]], "&"),
              JoinWith([k \in 1..n |-> f[k][2]], "&")>> : f \in [1..n -> FieldPairs]} :
           n \in 0..MaxFields}

\* A Cookie header around a pg value: pg alone, pg after another cookie, pg
\* before a cookie whose name ends in pg.
HeaderForms == {"pg", "x; pg", "pg;xpg"}
Header(form, v) ==
    CASE form = "pg" -> <<"p", "g", "=">> \o v
      [] form = "x; pg" -> <<"x", "=", "1", ";", " ", "p", "g", "=">> \o v
      [] OTHER -> <<"p", "g", "=">> \o v \o <<";", "x", "p", "g", "=", "h", "o", "=", "a">>

\* Headers without a pg entry, or whose pg entry is empty.
HeadersWithoutPg ==
    { << >>, <<" ">>, <<"x", "=", "1">>, <<"x", "=", "1", ";", " ", "y", "=", "2">>,
      <<"x", "p", "g", "=", "h", "o", "=", "a">>,
      <<"p", "g", "=", ";", " ", "p", "g", "=", "h", "o", "=", "a">> }

\* The inputs: two headers alike but for the order and the repetition of
\* ids, and whether the claim of the default state is made of them.
CookieInputs ==
    {[cookies |-> <<Header(w, p[1]), Header(w, p[2])>>, default |-> p[1] = << >>] :
        w \in HeaderForms, p \in PgPairs}
    \cup {[cookies |-> <<c, c>>, default |-> TRUE] : c \in HeadersWithoutPg}

NoCall == [fn |-> "", cookies |-> << >>, default |-> FALSE, states |-> << >>]

\* parse_ui_cookie is applied to the next header.
ParseUiCookie ==
    /\ call.fn = "parse_ui_cookie"
    /\ Len(call.states) < Len(call.cookies)
    /\ call' = [call EXCEPT !.states =
                   Append(@, parse_ui_cookie(call.cookies[Len(call.states) + 1]))]
    /\ UNCHANGED <<config, clock, db, lock, sched, cyc, reqs>>

\* ------------------------------------------------------------------ system
InitProgram ==
    /\ config \in Configs
    /\ clock = [now |-> 0, advances |-> 0]
    /\ db = << >>
    /\ lock = [holder |-> Free, poisoned |-> FALSE]
    /\ sched = [pc |-> "tick", i |-> 0, seq |-> 0, res |-> NoResult, cutoff |-> << >>]
    /\ cyc = [done |-> 0, locks |-> 0, pings |-> {}]
    /\ reqs = [r \in Reqs |-> [pc |-> "new", cookie |-> "", if_none_match |-> NoHeader,
                               resp |-> NoResponse]]

Init == InitProgram /\ call = NoCall

Next ==
    \/ PollTick
    \/ PollHostPing
    \/ PollHostLock
    \/ PollHostInsert
    \/ PollSvcCheck
    \/ PollSvcLock
    \/ PollSvcInsert
    \/ PollPurgeLock
    \/ PollPurge
    \/ \E r \in Reqs : Request(r) \/ HandlerLock(r) \/ HandlerRender(r)

Spec == Init /\ [][Next]_vars

\* The specification under which parse_ui_cookie is examined.
InitCookie ==
    /\ InitProgram
    /\ \E in \in CookieInputs :
         call = [fn |-> "parse_ui_cookie", cookies |-> in.cookies,
                 default |-> in.default, states |-> << >>]

NextCookie == ParseUiCookie

SpecCookie == InitCookie /\ [][NextCookie]_vars

\* ------------------------------------------------------------------ mailer
\* bin/mailer.rs.  The wall clock of the mailer is counted in ticks, a
\* fraction of a second, from local midnight of the day it starts.
SecsPerMinute == 60
DefaultSendHour == 8
TicksPerDay == HoursPerDay * MinutesPerHour * SecsPerMinute * TicksPerSec

\* s.parse::<u32>().ok(): Some(n) for a text of decimal digits, None for any
\* other text.
RECURSIVE DecimalValue(_)
DecimalValue(s) ==
    IF s = << >> THEN 0 ELSE 10 * DecimalValue(SubSeq(s, 1, Len(s) - 1)) + DigitVal(s[Len(s)])
ParseU32(s) ==
    IF s # << >> /\ \A k \in 1..Len(s) : s[k] \in Digits
    THEN Some(DecimalValue(s)) ELSE << >>

\* hh_mm.splitn(2, ':'): the text before the first colon, and the rest when
\* there is a colon.
SplitN2(s, c) ==
    LET k == FirstIndex(s, c)
    IN  IF k = 0 THEN <<s>> ELSE <<SubSeq(s, 1, k - 1), SubSeq(s, k + 1, Len(s))>>

\* today_at, as ticks after midnight: and_hms_opt(h, m, 0) of the parsed
\* hour and minute, 8 and 0 standing for what does not parse, and 08:00:00
\* when they are no time of day.
TimeOfDay(hh_mm) ==
    LET it == SplitN2(hh_mm, ":")
        ph == ParseU32(it[1])
        pm == IF Len(it) > 1 THEN ParseU32(it[2]) ELSE << >>
        h == IF ph # << >> THEN ph[1] ELSE DefaultSendHour
        m == IF pm # << >> THEN pm[1] ELSE 0
    IN  IF h < HoursPerDay /\ m < MinutesPerHour
        THEN (h * MinutesPerHour + m) * SecsPerMinute * TicksPerSec
        ELSE DefaultSendHour * MinutesPerHour * SecsPerMinute * TicksPerSec

\* The occurrence secs_until aims at when the clock reads now: today's when
\* now is before it, tomorrow's otherwise.
SendTarget(hh_mm, now) ==
    LET today_at == (now \div TicksPerDay) * TicksPerDay + TimeOfDay(hh_mm)
    IN  IF now < today_at THEN today_at ELSE today_at + TicksPerDay

\* secs_until: (target - now).num_seconds().max(0), the whole seconds of the
\* difference, its fraction dropped.
secs_until(hh_mm, now) ==
    LET d == SendTarget(hh_mm, now) - now
        secs == d \div TicksPerSec
    IN  IF secs > 0 THEN secs ELSE 0

\* The send times configured and, for each, the readings of the clock when
\* the mailer starts: around the first occurrence and before the second.
SendTimes ==
    { <<"0", "8", ":", "0", "0">>, <<"2", "3", ":", "5", "9">>, <<"0", "0", ":", "0", "0">>,
      <<"7", ":", "5">> }
StartTimes(hh_mm) ==
    {t \in {TimeOfDay(hh_mm) + d : d \in {-3, -2, -1, 0, 1, TicksPerDay - 1}} : t >= 0}
        \cup {0}

\* What sleep adds to the time asked for, and what opening the database,
\* rendering and sending take, in ticks.
Oversleep == {0, 1}
SendDurations == {0, 1}

\* The loop of main, at its head: secs_until is called and the sleep begins.
MailerSecsUntil ==
    /\ call.fn = "mailer" /\ call.pc = "secs_until"
    /\ call.loops < MaxLoops
    /\ call' = [call EXCEPT !.pc = "sleep", !.loops = @ + 1,
                            !.secs = secs_until(call.send_at, call.now),
                            !.target = SendTarget(call.send_at, call.now)]
    /\ UNCHANGED <<config, clock, db, lock, sched, cyc, reqs>>

\* tokio::time::sleep(Duration::from_secs(secs)).await returns, no sooner
\* than asked.
MailerSleep ==
    /\ call.fn = "mailer" /\ call.pc = "sleep"
    /\ \E o \in Oversleep :
         call' = [call EXCEPT !.pc = "open", !.now = @ + call.secs * TicksPerSec + o]
    /\ UNCHANGED <<config, clock, db, lock, sched, cyc, reqs>>

\* Connection::open_with_flags: the database opens, or it does not and the
\* loop continues.
MailerOpen ==
    /\ call.fn = "mailer" /\ call.pc = "open"
    /\ \/ call' = [call EXCEPT !.pc = "send"]
       \/ call' = [call EXCEPT !.pc = "secs_until"]
    /\ UNCHANGED <<config, clock, db, lock, sched, cyc, reqs>>

\* render_full_page, inline_css_vars and send_mailgun: the digest leaves at
\* the time the clock reads; the loop continues.  sent is history: for each
\* digest the occurrence it was slept for and the time it left.
MailerSend ==
    /\ call.fn = "mailer" /\ call.pc = "send"
    /\ \E d \in SendDurations :
         call' = [call EXCEPT !.pc = "secs_until", !.now = @ + d,
                              !.sent = Append(@, [target |-> call.target, at |-> call.now])]
    /\ UNCHANGED <<config, clock, db, lock, sched, cyc, reqs>>

InitMailer ==
    /\ InitProgram
    /\ \E hh_mm \in SendTimes : \E t \in StartTimes(hh_mm) :
         call = [fn |-> "mailer", send_at |-> hh_mm, now |-> t, pc |-> "secs_until",
                 loops |-> 0, secs |-> 0, target |-> 0, sent |-> << >>]

NextMailer == MailerSecsUntil \/ MailerSleep \/ MailerOpen \/ MailerSend

SpecMailer == InitMailer /\ [][NextMailer]_vars

\* ------------------------------------------------------- library rendering
\* lib.rs, as the mailer uses it: the items of the service cards, each with
\* the id it is given and whether it is rendered open.  What the database
\* holds has no part in either.
SvcId(i) == <<"svc-", i>>

lib_render_service_card(title, svcs, start_idx, open_svc_items) ==
    [k \in 1..Len(svcs) |->
        LET id == SvcId(start_idx + k - 1)
        IN  [card |-> title, label |-> svcs[k].label, check |-> svcs[k].check, id |-> id,
             open |-> IF open_svc_items = << >> THEN << >>
                      ELSE Some(id \in open_svc_items[1])]]

lib_render_services(services, ui) ==
    IF services = << >> THEN << >>
    ELSE LET web == SortByLabel(SelectSeq(services, LAMBDA s : s.check = "tcp"))
             icmp == SortByLabel(SelectSeq(services, LAMBDA s : s.check = "ping"))
             dns == SortByLabel(SelectSeq(services, LAMBDA s : s.check = "dns"))
         IN  lib_render_service_card("Web", web, 0, ui.open_svc_items)
                 \o lib_render_service_card("ICMP", icmp, Len(web), ui.open_svc_items)
                 \o lib_render_service_card("DNS", dns, Len(web) + Len(icmp),
                                            ui.open_svc_items)

\* The UiCookie render_full_page builds: every host, every card and the items
\* svc-0 .. svc-(n-1) open.
all_open_ui(cfg) ==
    [open_hosts |-> Some({cfg.hosts[k].addr : k \in 1..Len(cfg.hosts)}),
     open_svc_cards |-> << >>,
     open_svc_items |-> Some({SvcId(i) : i \in 0..(Len(cfg.services) - 1)})]

\* The lists of services rendered: of any check kind, labels repeated or not.
ServiceLabels == {<<"a">>, <<"W">>}
ServiceChecks == KnownChecks \cup {"smtp"}
ServiceLists ==
    UNION {[1..n -> {Service(l, c) : l \in ServiceLabels, c \in ServiceChecks}] :
               n \in 0..MaxServices}

\* render_full_page renders the services of the configuration.
RenderFullPage ==
    /\ call.fn = "render_full_page" /\ ~call.done
    /\ call' = [call EXCEPT !.done = TRUE,
                            !.items = lib_render_services(call.config.services,
                                                          all_open_ui(call.config))]
    /\ UNCHANGED <<config, clock, db, lock, sched, cyc, reqs>>

InitRender ==
    /\ InitProgram
    /\ \E services \in ServiceLists :
         call = [fn |-> "render_full_page",
                 config |-> [hosts |-> << >>, services |-> services],
                 done |-> FALSE, items |-> << >>]

NextRender == RenderFullPage

SpecRender == InitRender /\ [][NextRender]_vars

\* ----------------------------------------------------- css variable inlining
\* lib.rs, inline_css_vars and substitute_vars, on texts as sequences of
\* characters.  A call that panics returns None here, Some(text) otherwise.
VarOpen == <<"v", "a", "r", "(">>

\* str::find(pat): the first place pat starts at, 0 for None.
FindSub(s, pat) ==
    LET at == {k \in 1..(Len(s) - Len(pat) + 1) : SubSeq(s, k, k + Len(pat) - 1) = pat}
    IN  IF at = {} THEN 0 ELSE CHOOSE k \in at : \A j \in at : k <= j

\* The scan for the parenthesis closing a var( : the place of the first ")"
\* at which the depth returns to 0, counted from 1, and 0 when the text ends
\* first.
RECURSIVE ClosingParen(_, _, _)
ClosingParen(rest, i, depth) ==
    IF i > Len(rest) THEN 0
    ELSE IF rest[i] = "(" THEN ClosingParen(rest, i + 1, depth + 1)
    ELSE IF rest[i] = ")"
         THEN IF depth = 1 THEN i ELSE ClosingParen(rest, i + 1, depth - 1)
    ELSE ClosingParen(rest, i + 1, depth)

\* substitute_vars.  With no closing parenthesis end is rest.len() and the
\* slice &rest[end + 1..] starts past the end of the text: the call panics.
RECURSIVE substitute_vars(_, _)
substitute_vars(s, table) ==
    LET idx == FindSub(s, VarOpen)
    IN  IF idx = 0 THEN Some(s)
        ELSE LET rest == SubSeq(s, idx + Len(VarOpen), Len(s))
                 close == ClosingParen(rest, 1, 1)
             IN  IF close = 0 THEN << >>
                 ELSE LET inner == SubSeq(rest, 1, close - 1)
                          var_name == Trim(Split(inner, ",")[1])
                          piece == IF var_name \in DOMAIN table THEN table[var_name]
                                   ELSE VarOpen \o inner \o <<")">>
                          tail == substitute_vars(SubSeq(rest, close + 1, Len(rest)), table)
                      IN  IF tail = << >> THEN << >>
                          ELSE Some(SubSeq(s, 1, idx - 1) \o piece \o tail[1])

\* str::trim_end_matches(';')
RECURSIVE TrimEndSemicolons(_)
TrimEndSemicolons(s) ==
    IF s # << >> /\ s[Len(s)] = ";" THEN TrimEndSemicolons(SubSeq(s, 1, Len(s) - 1)) ELSE s

\* Step 1 of inline_css_vars: the --name: value; lines of the tokens, a later
\* line of a name replacing an earlier one.
RECURSIVE ParseTokens(_)
ParseTokens(lines) ==
    IF lines = << >> THEN [k \in {} |-> << >>]
    ELSE LET table == ParseTokens(SubSeq(lines, 1, Len(lines) - 1))
             stripped == strip_prefix(Trim(lines[Len(lines)]), <<"-", "-">>)
             colon == IF stripped = << >> THEN 0 ELSE FirstIndex(stripped[1], ":")
         IN  IF colon = 0 THEN table
             ELSE LET rest == stripped[1]
                      name == <<"-", "-">> \o Trim(SubSeq(rest, 1, colon - 1))
                      value == Trim(TrimEndSemicolons(Trim(SubSeq(rest, colon + 1, Len(rest)))))
                  IN  [k \in DOMAIN table \cup {name} |-> IF k = name THEN value ELSE table[k]]

\* One pass of step 2 over the keys in the order the map yields them: None
\* when a substitution panics, else the table and whether it changed.
RECURSIVE ResolvePass(_, _)
ResolvePass(table, keys) ==
    IF keys = << >> THEN Some([table |-> table, changed |-> FALSE])
    ELSE LET before == ResolvePass(table, SubSeq(keys, 1, Len(keys) - 1))
         IN  IF before = << >> THEN << >>
             ELSE LET key == keys[Len(keys)]
                      val == before[1].table[key]
                  IN  IF FindSub(val, VarOpen) = 0 THEN before
                      ELSE LET resolved == substitute_vars(val, before[1].table)
                           IN  IF resolved = << >> THEN << >>
                               ELSE IF resolved[1] = val THEN before
                               ELSE Some([table |-> [before[1].table EXCEPT ![key] = resolved[1]],
                                          changed |-> TRUE])

\* Step 2: passes until one changes nothing, RESOLVE_PASSES at most.
RESOLVE_PASSES == 10
RECURSIVE Resolve(_, _, _)
Resolve(table, keys, passes) ==
    IF passes = 0 THEN Some(table)
    ELSE LET pass == ResolvePass(table, keys)
         IN  IF pass = << >> THEN << >>
             ELSE IF ~pass[1].changed THEN Some(pass[1].table)
             ELSE Resolve(pass[1].table, keys, passes - 1)

\* The token table the page is built with: a plain value and two values
\* that refer to another variable.
TOKENS_CSS ==
    << <<":", "r", "o", "o", "t", " ", "{">>,
       <<" ", " ", "-", "-", "x", ":", " ", "1", ";">>,
       <<" ", " ", "-", "-", "y", ":", " ", "v", "a", "r", "(", "-", "-", "x", ")", ";">>,
       <<" ", " ", "-", "-", "z", " ", ":", " ", "v", "a", "r", "(", "-", "-", "y", ",", " ", "2", ")", " ", ";">>,
       <<"}">> >>

inline_css_vars(html, keys) ==
    LET table == Resolve(ParseTokens(TOKENS_CSS), keys, RESOLVE_PASSES)
    IN  IF table = << >> THEN << >> ELSE substitute_vars(html, table[1])

\* The orders in which the map may yield its keys.
KeyOrders ==
    LET names == DOMAIN ParseTokens(TOKENS_CSS)
    IN  {o \in [1..Cardinality(names) -> names] : \A j, k \in DOMAIN o : j # k => o[j] # o[k]}

\* The texts inlined: up to MaxPieces pieces, among them var( opened and not
\* closed, defined and undefined names, fallbacks and other text.
HtmlPieces ==
    { VarOpen, <<"-", "-", "x">>, <<"-", "-", "z">>, <<"-", "-", "q">>, <<")">>, <<"(">>, <<",", " ", "a">>, <<"a">> }
RECURSIVE Concat(_)
Concat(texts) == IF texts = << >> THEN << >> ELSE Head(texts) \o Concat(Tail(texts))
HtmlInputs == {Concat(q) : q \in UNION {[1..n -> HtmlPieces] : n \in 0..MaxPieces}}

InlineCssVars ==
    /\ call.fn = "inline_css_vars" /\ ~call.done
    /\ call' = [call EXCEPT !.done = TRUE, !.result = inline_css_vars(call.html, call.keys)]
    /\ UNCHANGED <<config, clock, db, lock, sched, cyc, reqs>>

InitInline ==
    /\ InitProgram
    /\ \E html \in HtmlInputs : \E keys \in KeyOrders :
         call = [fn |-> "inline_css_vars", html |-> html, keys |-> keys,
                 done |-> FALSE, result |-> << >>]

NextInline == InlineCssVars

SpecInline == InitInline /\ [][NextInline]_vars

\* ------------------------------------------------------------------ claims
Done(r) == reqs[r].pc = "done"

\* The subject keys of the configured targets, in the order poll_loop
\* probes them.
TargetKeys ==
    [k \in 1..Len(config.hosts) |-> config.hosts[k].addr]
        \o [k \in 1..Len(config.services) |-> SvcKey(config.services[k])]

\* The instant an RFC 3339 text denotes.
InstantOf(text) == text[1] - text[2]

\* The rows the cycle under way has inserted.
RowsOfCycle(c) == SelectSeq(db, LAMBDA r : r.cycle = c)

\* C1: a cycle's inserts and its purge are one atomic unit: no response is
\* rendered from rows of a cycle whose purge has not been applied (so none
\* sees a cycle in part), and the scheduler takes the mutex once per cycle.
C1_AtomicCycle ==
    /\ \A r \in Reqs :
         Done(r) => \A c \in reqs[r].resp.cycles_read : c <= reqs[r].resp.cycles_done
    /\ (sched.pc = "tick" /\ cyc.done >= 1) => cyc.locks = 1

\* C2: a cycle that has reached its purge has inserted exactly one row for
\* each configured target, hosts first, then services, whatever the probes
\* returned and whatever the check kinds are.
C2_OneRowPerTarget ==
    sched.pc \in {"purge_lock", "purge_exec"} =>
        /\ Len(RowsOfCycle(cyc.done + 1)) = Len(config.hosts) + Len(config.services)
        /\ [k \in 1..Len(RowsOfCycle(cyc.done + 1)) |-> RowsOfCycle(cyc.done + 1)[k].host]
               = TargetKeys

\* C2 witness: a cycle after the first is at its purge, and the rows it
\* inserted include the DOWN row of a service of an unknown check kind.
C2_Witness ==
    /\ sched.pc = "purge_exec"
    /\ cyc.done >= 1
    /\ \E v \in 1..Len(config.services) :
          /\ config.services[v].check \notin KnownChecks
          /\ \E k \in 1..Len(RowsOfCycle(cyc.done + 1)) :
                /\ RowsOfCycle(cyc.done + 1)[k].host = SvcKey(config.services[v])
                /\ RowsOfCycle(cyc.done + 1)[k].status = "DOWN"

\* C3: the purge of a cycle leaves exactly the rows that are not older than
\* the cutoff: every row whose instant is before the cutoff's is gone and
\* every other row is still there.
C3_Retention ==
    [][(sched.pc = "purge_exec" /\ sched'.pc = "tick") =>
          db' = SelectSeq(db, LAMBDA r :
                    InstantOf(r.timestamp) >= InstantOf(sched.cutoff))]_vars

\* C5: the generation is the number of completed cycles, and a response to a
\* default-selector request served after k >= 1 cycles carries the ETag of
\* generation k.
C5_GenerationETag ==
    \A r \in Reqs :
        (Done(r) /\ reqs[r].cookie = "" /\ reqs[r].resp.cycles_done >= 1) =>
            /\ reqs[r].resp.etag # NoETag
            /\ reqs[r].resp.etag[1][1] = reqs[r].resp.cycles_done

\* C6: a page served while the generation is G holds rows of cycles 1..G
\* only: nothing of cycle G + 1 is visible before generation G + 1 is.
C6_CommitBeforeVisible ==
    \A r \in Reqs :
        Done(r) => reqs[r].resp.cycles_read \subseteq 1..reqs[r].resp.cycles_done

\* C7: once a cycle has completed, a default-selector request is answered
\* from the pre-rendered entry: no render, no read of the store.
C7_WarmDefault ==
    \A r \in Reqs :
        (Done(r) /\ reqs[r].cookie = "" /\ reqs[r].resp.cycles_done >= 1
            /\ \A q \in Reqs : reqs[q].pc # "panicked") =>
            ~reqs[r].resp.store_reads

\* C8: two requests with the same cookie handled between the same two
\* consecutive cycle boundaries get the same body and the same ETag.
C8_SameBytes ==
    \A r1, r2 \in Reqs :
        (Done(r1) /\ Done(r2) /\ reqs[r1].cookie = reqs[r2].cookie
            /\ reqs[r1].resp.cycles_done >= 1
            /\ reqs[r1].resp.cycles_done = reqs[r2].resp.cycles_done) =>
            /\ reqs[r1].resp.body = reqs[r2].resp.body
            /\ reqs[r1].resp.etag = reqs[r2].resp.etag

\* C9: a request whose If-None-Match is the ETag of the current generation
\* and of its selector is answered 304 with no body and without a read of
\* the store; any other request is answered 200 with the rendered page.
C9_NotModified ==
    \A r \in Reqs :
        Done(r) =>
            IF reqs[r].if_none_match
                   = Some(ETagText(reqs[r].resp.cycles_done, reqs[r].cookie))
            THEN /\ reqs[r].resp.status = 304
                 /\ ~reqs[r].resp.store_reads
            ELSE reqs[r].resp.status = 200

\* C10: the refresh interval of a served page is the poll interval P, or
\* max(1, P - r) for a render time r >= 1: it lies between 1 and P.
C10_RefreshInterval ==
    \A r \in Reqs :
        Done(r) =>
            \E t \in 0..config.poll_interval_secs :
                reqs[r].resp.refresh =
                    IF t >= 1
                    THEN (IF config.poll_interval_secs - t > 1
                          THEN config.poll_interval_secs - t ELSE 1)
                    ELSE config.poll_interval_secs

\* The services whose check kind poll_loop does not know.
UnknownSvcs == {v \in 1..Len(config.services) : config.services[v].check \notin KnownChecks}

\* C11: no probe is ever awaited for a service of an unknown check kind; the
\* step that records such a service appends one row, DOWN and without a
\* latency, under the service's key, and leaves the scheduler at the next
\* target of the cycle (or at the purge); and a cycle at its purge holds
\* exactly one row for each such service.
C11_UnknownKindDown ==
    /\ [](sched.pc = "svc_check" => sched.i \notin UnknownSvcs)
    /\ [](sched.pc \in {"purge_lock", "purge_exec"} =>
            \A v \in UnknownSvcs :
                Len(SelectSeq(RowsOfCycle(cyc.done + 1),
                              LAMBDA r : r.host = SvcKey(config.services[v]))) = 1)
    /\ [][(sched.pc = "svc_exec" /\ sched.i \in UnknownSvcs /\ db' # db) =>
            /\ Len(db') = Len(db) + 1
            /\ SubSeq(db', 1, Len(db)) = db
            /\ db'[Len(db')].host = SvcKey(config.services[sched.i])
            /\ db'[Len(db')].status = "DOWN"
            /\ db'[Len(db')].latency_ms = NoLatency
            /\ sched'.pc \in {"svc_check", "svc_lock", "purge_lock"}
            /\ sched'.pc # "purge_lock" => sched'.i = sched.i + 1]_vars

\* C11 witness: the second cycle has recorded the DOWN row of the service of
\* an unknown kind and is probing the service that follows it.
C11_Witness ==
    /\ sched.pc = "svc_check"
    /\ cyc.done = 1
    /\ sched.i - 1 \in UnknownSvcs
    /\ \E k \in 1..Len(db) :
          /\ db[k].cycle = 2
          /\ db[k].host = SvcKey(config.services[sched.i - 1])
          /\ db[k].status = "DOWN"
          /\ db[k].latency_ms = NoLatency

\* The host loop comes to host i in this step: out of the tick for the first
\* host, out of the insert of the host before it for any other.
ReachesHost(i) ==
    \/ i = 1 /\ sched.pc = "tick" /\ sched' # sched
    \/ i > 1 /\ sched.pc = "host_exec" /\ sched.i = i - 1 /\ db' # db

\* C12: when the host loop comes to a host whose address does not parse, the
\* scheduler goes on: the host is DOWN without a latency for this cycle and
\* its row is the next thing to be written.
C12_UnparsableIsDown ==
    [][\A i \in 1..Len(config.hosts) :
          (ReachesHost(i) /\ ~ParsesAsIpAddr(config.hosts[i].addr)) =>
              /\ sched'.pc = "host_lock"
              /\ sched'.i = i
              /\ sched'.res.status = "DOWN"
              /\ sched'.res.latency_ms = NoLatency]_vars

\* The scheduler's positions under the mutex, a store write about to run.
WriteStates == {"host_exec", "svc_exec", "purge_exec"}

\* C13: a step in which a store write of the scheduler fails ends the
\* scheduler, changes no row and leaves the mutex poisoned; and once the
\* scheduler has ended over a poisoned mutex, it stays so: no row is
\* inserted or purged, no cycle is counted, the scheduler takes no further
\* step and no request is answered with a page.
C13_WriteFailureFatal ==
    [][/\ (sched.pc \in WriteStates /\ sched'.pc = "panicked") =>
            (db' = db /\ cyc'.done = cyc.done /\ lock'.poisoned)
       /\ (sched.pc = "panicked" /\ lock.poisoned) =>
            /\ sched' = sched /\ db' = db /\ cyc' = cyc /\ lock'.poisoned
            /\ \A r \in Reqs : reqs'[r].pc = "done" => reqs[r].pc = "done"]_vars

\* C13 witness: the purge of the second cycle failed after a page had been
\* served, and a request that came later got no page.
C13_Witness ==
    /\ sched.pc = "panicked"
    /\ sched.cutoff # << >>
    /\ cyc.done = 1
    /\ cyc.locks = NumTargets + 1
    /\ lock.poisoned
    /\ reqs[1].pc = "done"
    /\ reqs[2].pc = "panicked"

\* The scheduler's positions waiting for the mutex.
LockWaits == {"host_lock", "svc_lock", "purge_lock"}

\* C14: a render that fails is the failure of its own request only.  While
\* the scheduler runs (so that no store write has failed), no request is
\* refused at the mutex and the scheduler is not stopped at the mutex.
C14_RenderFailureLocal ==
    [][sched.pc # "panicked" =>
          /\ sched.pc \in LockWaits => sched'.pc # "panicked"
          /\ \A r \in Reqs : reqs[r].pc = "lock" => reqs'[r].pc # "panicked"]_vars

\* The scheduler's positions awaiting the result of a probe.
ProbeWaits == {"host_ping", "svc_check"}

\* C16: while the scheduler awaits a probe it does not hold the mutex, so a
\* request waiting for the mutex then waits for nothing but another request.
C16_NoLockAcrossProbe ==
    sched.pc \in ProbeWaits => lock.holder # Scheduler

\* C16 witness: a request renders under the mutex while the scheduler, a
\* row of the cycle already written, awaits the probe of a service.
C16_Witness ==
    /\ sched.pc = "svc_check"
    /\ RowsOfCycle(cyc.done + 1) # << >>
    /\ \E r \in Reqs : reqs[r].pc = "render" /\ lock.holder = Handler(r)

\* C17: readers and the writer do not wait for each other: the scheduler,
\* about to commit, is not kept waiting by a render in progress; a request,
\* about to read, is not kept waiting by a write of the scheduler in
\* progress, nor by the render of another request.
C17_SeparateHandles ==
    /\ sched.pc \in LockWaits => \A r \in Reqs : lock.holder # Handler(r)
    /\ \A r \in Reqs :
          reqs[r].pc = "lock" =>
              /\ lock.holder # Scheduler
              /\ \A q \in Reqs : lock.holder # Handler(q)

\* C19: no row of a cycle is written while a probe of that cycle is still
\* awaited: the first write of the cycle comes after its last probe.
C19_FanOutFanIn ==
    sched.pc \in ProbeWaits => RowsOfCycle(cyc.done + 1) = << >>

\* The phase of the scheduler: Idle at the tick, Probing while a probe is
\* awaited, Committing from the request of the mutex to the end of the
\* write; poll_loop renders nothing, so it is never Rendering.
Phase(pc) ==
    CASE pc = "tick" -> "Idle"
      [] pc \in ProbeWaits -> "Probing"
      [] pc \in LockWaits \cup WriteStates -> "Committing"
      [] OTHER -> "Stopped"
PhaseRank(ph) ==
    CASE ph = "Idle" -> 0 [] ph = "Probing" -> 1 [] ph = "Committing" -> 2
      [] ph = "Rendering" -> 3 [] OTHER -> 4

\* C20: the phases of a cycle follow the order Idle, Probing, Committing,
\* Rendering, Idle, a phase with nothing to do being passed over: within a
\* cycle the scheduler never goes back to an earlier phase, the tick is
\* taken from Idle only, and Idle is entered only by the end of the purge,
\* which completes the one cycle under way.
C20_PhaseOrder ==
    [][/\ Phase(sched'.pc) # "Idle" => PhaseRank(Phase(sched'.pc)) >= PhaseRank(Phase(sched.pc))
       /\ cyc'.locks = 0 /\ cyc.locks # 0 => Phase(sched.pc) = "Idle"
       /\ (Phase(sched'.pc) = "Idle" /\ Phase(sched.pc) # "Idle") =>
             (sched.pc = "purge_exec" /\ cyc'.done = cyc.done + 1)]_vars

\* C15: a header that is empty, has no pg entry or has an empty pg value
\* yields the default state, and two headers that differ only in the order
\* and the repetition of the ids of their fields yield the same state.
C15_CookieState ==
    call.fn = "parse_ui_cookie" =>
        /\ call.default => \A k \in 1..Len(call.states) : call.states[k] = DefaultUiCookie
        /\ Len(call.states) = 2 => call.states[1] = call.states[2]

\* C15 witness: two headers with the ids of their host field in a different
\* order, and one of them twice in the card field of the second, were both
\* parsed to the state with these two hosts and this one card open.
C15_Witness ==
    /\ call.fn = "parse_ui_cookie"
    /\ Len(call.states) = 2
    /\ call.cookies[1] # call.cookies[2]
    /\ Len(call.cookies[2]) > Len(call.cookies[1])
    /\ call.states[2].open_hosts = Some({<<"a">>, <<"b", "a">>})
    /\ call.states[2].open_svc_cards = Some({<<"a">>})
    /\ call.states[2].open_svc_items = << >>

\* C21: the scheduler loop never terminates: short of a store write that
\* fails, no step ends the scheduler, neither at the head of an iteration
\* nor where it waits for the mutex that request handlers take and release.
C21_LoopNeverEnds ==
    [][(sched'.pc = "panicked" /\ sched.pc # "panicked") => sched.pc \in WriteStates]_vars

\* The ids of the rows.
RowIds(rows) == {rows[k].id : k \in 1..Len(rows)}

\* C23: a step that changes the table is a write of the scheduler, under
\* the mutex, and no step of a request is one; a row that stays in the table
\* stays as it was, in its place among the others, a new row comes after all
\* the others under a new id, and rows go only in the purge.
C23_HandlerReadsOnly ==
    [][db' # db =>
          /\ sched.pc \in WriteStates
          /\ reqs' = reqs
          /\ IF sched.pc = "purge_exec"
             THEN /\ RowIds(db') \subseteq RowIds(db)
                  /\ db' = SelectSeq(db, LAMBDA x : x.id \in RowIds(db'))
             ELSE /\ Len(db') = Len(db) + 1
                  /\ SubSeq(db', 1, Len(db)) = db
                  /\ db'[Len(db')].id \notin RowIds(db)]_vars

\* C23 witness: a page has been served from rows in the table, and the
\* purge of the second cycle has since removed rows of the first.
C23_Witness ==
    /\ cyc.done = 2
    /\ db # << >>
    /\ db[1].id > 1
    /\ \E r \in Reqs : Done(r) /\ 1 \in reqs[r].resp.cycles_read

\* C24: every row of the table is UP exactly when it has a latency.
C24_UpIffLatency ==
    \A k \in 1..Len(db) : (db[k].status = "UP") <=> (db[k].latency_ms # NoLatency)

\* C24 witness: the table holds the UP row of a host that replied, the DOWN
\* row of the same host when it did not, and the row of a tcp service.
C24_Witness ==
    /\ Len(config.hosts) = 1
    /\ \E j, k, m \in 1..Len(db) :
          /\ db[j].host = config.hosts[1].addr /\ db[j].status = "UP"
          /\ db[j].latency_ms = Some(4)
          /\ db[k].host = config.hosts[1].addr /\ db[k].status = "DOWN"
          /\ db[k].latency_ms = NoLatency
          /\ db[m].host = SvcKey(config.services[1])

\* C25: the key under which a host's row is written is the key of no
\* configured service, and the key under which a service's row is written
\* is the address of no configured host.
C25_KeysDisjoint ==
    [][/\ (sched.pc = "host_exec" /\ db' # db) =>
            \A v \in 1..Len(config.services) :
                db'[Len(db')].host # SvcKey(config.services[v])
       /\ (sched.pc = "svc_exec" /\ db' # db) =>
            \A h \in 1..Len(config.hosts) :
                db'[Len(db')].host # config.hosts[h].addr]_vars

\* C25 witness: the table holds a row of the host and a row of the service
\* of one cycle, and a query for either key returns the one row only.
C25_Witness ==
    /\ Len(config.hosts) = 1
    /\ Len(db) = 2
    /\ db[1].host = config.hosts[1].addr
    /\ db[2].host = SvcKey(config.services[1])
    /\ Len(query_recent_checks(db, config.hosts[1].addr, 20)) = 1
    /\ Len(query_recent_checks(db, SvcKey(config.services[1]), 10)) = 1

\* C26: the scheduler is about to write only while it holds the mutex, a
\* request renders only while it holds the mutex, and the table does not
\* change from the moment a request has the mutex to the end of its render.
C26_RenderSeesOneStore ==
    /\ [](sched.pc \in WriteStates => lock.holder = Scheduler)
    /\ [](\A r \in Reqs : reqs[r].pc = "render" => lock.holder = Handler(r))
    /\ [][(\E r \in Reqs : reqs[r].pc = "render") => db' = db]_vars

\* C26 witness: a request renders while the scheduler, the first row of its
\* cycle written, waits for the mutex to write the second.
C26_Witness ==
    /\ sched.pc = "svc_lock"
    /\ Len(RowsOfCycle(cyc.done + 1)) = 1
    /\ \E r \in Reqs : reqs[r].pc = "render" /\ lock.holder = Handler(r)

\* The specification under which the sequence number is examined: the
\* scheduler pings a host and a service; it is new, or it has completed
\* 65535 cycles, the last of them after a pause longer than the retention
\* window, so that the table holds the rows of that cycle and no other.
\* cyc.done counts the cycles from there on and the rows already there are
\* of cycle 0.
SeqConfigs ==
    { [ poll_interval_secs |-> DEFAULT_POLL_INTERVAL_SECS,
        retention_days |-> 1,
        hosts |-> << Host(<<"1", "0", ".", "0", ".", "0", ".", "1">>, <<"r">>) >>,
        services |-> << Service(<<"w">>, "ping") >> ] }
CyclesBefore == {0, 65535}

InitSeq ==
    /\ config \in SeqConfigs
    /\ \E n \in CyclesBefore :
         /\ clock = [now |-> (n * config.poll_interval_secs) \div (60 * MinutesPerHour),
                     advances |-> 0]
         /\ db = IF n = 0 THEN << >>
                 ELSE [k \in 1..NumTargets |->
                          [id |-> (n - 1) * NumTargets + k, host |-> TargetKeys[k],
                           timestamp |-> Rfc3339(clock.now), status |-> "DOWN",
                           latency_ms |-> NoLatency, cycle |-> 0]]
         /\ sched = [pc |-> "tick", i |-> 0, seq |-> n % 65536, res |-> NoResult,
                     cutoff |-> << >>]
         /\ cyc = [done |-> 0, locks |-> IF n = 0 THEN 0 ELSE NumTargets + 1,
                   pings |-> IF n = 0 THEN {} ELSE {(n - 1) % 65536}]
    /\ lock = [holder |-> Free, poisoned |-> FALSE]
    /\ reqs = [r \in Reqs |-> [pc |-> "new", cookie |-> "", if_none_match |-> NoHeader,
                               resp |-> NoResponse]]
    /\ call = NoCall

SpecSeq == InitSeq /\ [][Next]_vars

\* C27: the echo requests of one cycle carry one sequence number, that of
\* the scheduler during the cycle; the number is 0 for a new scheduler, lies
\* in 0..65535, changes only when a cycle completes, and is then one more
\* modulo 65536: after 65535 comes 0, and the scheduler goes on.
C27_SequenceNumber ==
    /\ []((sched.pc = "tick" /\ db = << >>) => sched.seq = 0)
    /\ [](sched.seq \in 0..65535)
    /\ [](Cardinality(cyc.pings) <= 1)
    /\ [](sched.pc # "tick" => cyc.pings \subseteq {sched.seq})
    /\ [][sched'.seq # sched.seq => cyc'.done = cyc.done + 1]_vars
    /\ [][cyc'.done = cyc.done + 1 =>
            /\ sched'.seq = (sched.seq + 1) % 65536
            /\ sched.seq = 65535 => sched'.seq = 0
            /\ sched'.pc = "tick"]_vars

\* C27 witness: the cycle whose two echo requests carried 65535 is
\* complete, the number is 0, and the first echo request of the next cycle
\* has been sent with it.
C27_Witness ==
    /\ sched.seq = 0
    /\ cyc.done = 1
    /\ cyc.pings = {0}
    /\ sched.pc = "host_lock"
    /\ \E k \in 1..Len(db) : db[k].id > 65535

\* C28: no digest leaves before the occurrence of send_at it was slept for,
\* and no two digests are for the same occurrence.
C28_OneDigestPerDay ==
    call.fn = "mailer" =>
        /\ \A k \in 1..Len(call.sent) : call.sent[k].at >= call.sent[k].target
        /\ \A j, k \in 1..Len(call.sent) :
              j # k => call.sent[j].target # call.sent[k].target

\* C29: a rendered page holds one item for each configured service, and the
\* ids of the items are svc-0 .. svc-(n-1), each once, the ids
\* render_full_page marks open.
Occurrences(q, x) == Cardinality({k \in 1..Len(q) : q[k] = x})
C29_EachServiceOnce ==
    (call.fn = "render_full_page" /\ call.done) =>
        LET services == call.config.services
            n == Len(services)
            items == call.items
            rendered == [k \in 1..Len(items) |-> Service(items[k].label, items[k].check)]
        IN  /\ \A k \in 1..n : Occurrences(rendered, services[k]) = Occurrences(services, services[k])
            /\ Len(items) = n
            /\ \A j, k \in 1..Len(items) : j # k => items[j].id # items[k].id
            /\ {items[k].id : k \in 1..Len(items)} = {SvcId(i) : i \in 0..(n - 1)}
            /\ \A k \in 1..Len(items) : items[k].open = Some(TRUE)

\* C30: inline_css_vars returns for every text, a var( left open included,
\* and never fails; a text without var( is returned as it is, var(--name) of
\* a defined name becomes the value of the name, and var(...) of an undefined
\* name is reproduced.
C30_InlineNeverFails ==
    (call.fn = "inline_css_vars" /\ call.done) =>
        /\ call.result # << >>
        /\ FindSub(call.html, VarOpen) = 0 => call.result = Some(call.html)
        /\ call.html = VarOpen \o <<"-", "-", "x">> \o <<")">> => call.result = Some(<<"1">>)
        /\ call.html = VarOpen \o <<"-", "-", "z">> \o <<")">> => call.result = Some(<<"1">>)
        /\ call.html = VarOpen \o <<"-", "-", "q">> \o <<")">> => call.result = Some(call.html)

====
